---- MODULE Spec2Model ----
(***************************************************************************)
(* Model of multi_splunk_query.py: one query is fanned out over several    *)
(* Splunk instances through a thread pool; each unit runs                  *)
(* SplunkQueryExecutor.execute, and main collects the outcomes into the    *)
(* results and errors dictionaries, prints a summary and exits.            *)
(*                                                                         *)
(* Python strings that the code inspects character by character (the       *)
(* query) are sequences of one-character strings; strings that are only    *)
(* built and compared (messages, names) are TLA+ strings.                  *)
(***************************************************************************)
EXTENDS Integers, Sequences, FiniteSets, TLC

VARIABLES
    query,              \* main: the raw query (args.query or the query file's text)
    instances,          \* main: the instances ConfigLoader.load returned
    selected_clients,   \* main: the names selected by --clients / default
    parallel,           \* args.parallel, the pool's max_workers
    fmt,                \* args.format
    unwritable,         \* the instance names whose output file open() cannot create
    mainpc,             \* where main is
    filtered_instances, \* main: filtered_instances
    submitted,          \* how many pool.submit calls the comprehension has made
    upc,                \* per unit: where its worker is in execute
    uq,                 \* per unit: the query string handed to the adapter
    usid,               \* per unit: the sid local of execute_bearer_rest
    calls,              \* per unit: the transport operations invoked so far
    future,             \* per unit: what the future holds once the unit settled
    yielded,            \* the units as_completed has yielded to the loop body, in order
    results,            \* main: results
    errors,             \* main: errors
    exit_code,          \* the process's exit status
    nqPc, nqIn, nqOut, nqOut2   \* the normalizer applied to an input, then to its output

vars == <<query, instances, selected_clients, parallel, fmt, unwritable, mainpc,
          filtered_instances, submitted, upc, uq, usid, calls, future, yielded,
          results, errors, exit_code, nqPc, nqIn, nqOut, nqOut2>>

mainVars == <<query, instances, selected_clients, parallel, fmt, unwritable, mainpc,
              filtered_instances, submitted, upc, uq, usid, calls, future, yielded,
              results, errors, exit_code>>

normVars == <<nqPc, nqIn, nqOut, nqOut2>>

-----------------------------------------------------------------------------
(* Bounds of the model. *)

MaxInstances == 2      \* instances in the configuration
MaxParallel == 2       \* largest --parallel tried
MaxTokens == 3         \* pieces an input of the normalizer is built from

-----------------------------------------------------------------------------
(* Python values. *)

\* None, as the error half of an outcome (no message the code builds equals it).
None == "<None>"

\* Python truthiness of an Optional[str]: None and '' are falsy.
Truthy(s) == s # None /\ s # ""

\* A JSON / Python value that is a list of rows, and the JSON null (None).
JList(rows) == [t |-> "list", v |-> rows]
JNull == [t |-> "null", v |-> <<>>]

\* Python truthiness of such a value: None and [] are falsy.
TruthyData(d) == d.t = "list" /\ d.v # <<>>

-----------------------------------------------------------------------------
(* SplunkQueryExecutor.normalize_query *)

\* The characters str.strip() removes (those of them the inputs use).
Whitespace == {" ", "\n", "\t"}

RECURSIVE LStrip(_)
LStrip(s) == IF s # <<>> /\ Head(s) \in Whitespace THEN LStrip(Tail(s)) ELSE s

RECURSIVE RStrip(_)
RStrip(s) ==
    IF s # <<>> /\ s[Len(s)] \in Whitespace THEN RStrip(SubSeq(s, 1, Len(s) - 1)) ELSE s

\* str.strip()
strip(s) == RStrip(LStrip(s))

\* str.startswith(prefix)
startswith(s, prefix) ==
    Len(s) >= Len(prefix) /\ SubSeq(s, 1, Len(prefix)) = prefix

SearchWord == <<"s", "e", "a", "r", "c", "h">>
Pipe == <<"|">>

\* f"search {query}"
PrependSearchBad(q) == SearchWord \o q
PrependSearch(q) == SearchWord \o <<" ">> \o q

\* query = query.strip()
Trim(q) == strip(q)

\* not query.startswith('search') and not query.startswith('|')
NeedsPrefixOr(t) == ~startswith(t, SearchWord) \/ ~startswith(t, Pipe)
NeedsPrefix(t) == ~startswith(t, SearchWord) /\ ~startswith(t, Pipe)

normalize_query_raw(q) == q
normalize_query(q) ==
    LET t == Trim(q)
    IN IF NeedsPrefix(t) THEN PrependSearch(t) ELSE t

-----------------------------------------------------------------------------
(* The inputs of the normalizer: concatenations of at most MaxTokens pieces. *)

Tokens == { <<" ">>, <<"\n">>, SearchWord, Pipe, <<"x">>, <<"s", "e", "a">> }

RECURSIVE Concat(_)
Concat(ts) == IF ts = <<>> THEN <<>> ELSE Head(ts) \o Concat(Tail(ts))

NormInputs ==
    { Concat(ts) : ts \in UNION { [1..n -> Tokens] : n \in 0..MaxTokens } }

-----------------------------------------------------------------------------
(* The inputs of a run. *)

Names == {"a", "b"}
AuthTypes == {"splunk", "bearer", "oauth"}

\* SplunkInstance, reduced to the fields main and execute branch on.
SplunkInstance == [name : Names, auth_type : AuthTypes]

Configs == UNION { [1..n -> SplunkInstance] : n \in 0..MaxInstances }

\* --clients: every name, one name, a name no instance has.
Selections == { Names, {"a"}, {"zz"} }

Queries == { <<"x">>, <<" ", "|", " ", "x", "\n">> }

Formats == {"json", "csv"}

\* The output directory: every file can be written, or the file of "b" cannot
\* (a name with a path separator in it, a file owned by someone else).
Unwritables == { {}, {"b"} }

\* Rows as the services return them; the second sequence has a row with a
\* field the first row lacks.
Row1 == [host |-> "h1"]
Row2 == [host |-> "h2", src |-> "s"]
RowSeqs == { <<Row1>>, <<Row1, Row2>> }

-----------------------------------------------------------------------------
(* The outcome a future holds. *)

NoOutcome == [raised |-> FALSE, set |-> FALSE, data |-> JList(<<>>), error |-> None, exc |-> ""]

\* execute returned (data, error)
Returned(data, error) ==
    [raised |-> FALSE, set |-> TRUE, data |-> data, error |-> error, exc |-> ""]

\* execute raised an exception e, with str(e) = text
Raised(text) ==
    [raised |-> TRUE, set |-> TRUE, data |-> JList(<<>>), error |-> None, exc |-> text]

Units == 1..Len(filtered_instances)

\* The futures the loop has taken from as_completed.
Yielded == { yielded[k] : k \in 1..Len(yielded) }

Running(i) == upc[i] \in {"connect", "create", "results", "post", "get"}

InFlight == { i \in Units : Running(i) }

Append1(f, i, x) == [f EXCEPT ![i] = Append(@, x)]

-----------------------------------------------------------------------------
(* The transport under requests.Session: urllib3's Retry as _create_session *)
(* configures it.                                                           *)

RetryTotal == 3
StatusForcelist == {500, 502, 503, 504}

\* urllib3's default Retry.allowed_methods: the verbs it retries at all on a
\* status or a read error.
AllowedMethods == {"GET", "HEAD", "PUT", "DELETE", "OPTIONS", "TRACE"}

Refused == [k |-> "refused", status |-> 0, json |-> FALSE, sid |-> "", results |-> JNull]
Timeout == [k |-> "timeout", status |-> 0, json |-> FALSE, sid |-> "", results |-> JNull]
Http(status, json, sid, res) ==
    [k |-> "http", status |-> status, json |-> json, sid |-> sid, results |-> res]

\* dict.get on a key the body lacks
Absent == [t |-> "absent", v |-> <<>>]
NoSid == "<absent>"

\* What one send through the session ends with: the response returned, or the
\* exception raised, and the number of requests it put on the wire. script is
\* what the server does to the 1st, 2nd, ... request (its last entry repeats).
RECURSIVE Send(_, _, _, _)
Send(method, script, k, left) ==
    LET ev == script[IF k <= Len(script) THEN k ELSE Len(script)]
        retryable == method \in AllowedMethods
    IN CASE ev.k = "refused" ->
              IF left = 0
              THEN [raise |-> "Max retries exceeded: connection refused", resp |-> ev, attempts |-> k]
              ELSE Send(method, script, k + 1, left - 1)
         [] ev.k = "timeout" ->
              IF retryable /\ left > 0
              THEN Send(method, script, k + 1, left - 1)
              ELSE [raise |-> "Read timed out", resp |-> ev, attempts |-> k]
         [] OTHER ->
              IF retryable /\ ev.status \in StatusForcelist
              THEN IF left = 0
                   THEN [raise |-> "Max retries exceeded: too many error responses",
                         resp |-> ev, attempts |-> k]
                   ELSE Send(method, script, k + 1, left - 1)
              ELSE [raise |-> "", resp |-> ev, attempts |-> k]

\* response.raise_for_status(): the text of the HTTPError, '' when it passes
HttpErrorText(status) ==
    IF status >= 500 THEN "Server Error"
    ELSE IF status >= 400 THEN "Client Error"
    ELSE ""

\* What the servers may do to the job-creation POST.
PostScripts ==
    { <<Http(200, TRUE, "s1", JNull)>>,
      <<Http(200, TRUE, NoSid, JNull)>>,
      <<Http(200, TRUE, "", JNull)>>,
      <<Http(200, FALSE, NoSid, JNull)>>,
      <<Http(401, TRUE, NoSid, JNull)>>,
      <<Http(503, FALSE, NoSid, JNull)>>,
      <<Refused>>,
      <<Timeout>> }

\* What the servers may do to the results GET.
GetScripts ==
    { <<Http(200, TRUE, NoSid, JList(rows))>> : rows \in RowSeqs }
    \cup
    { <<Http(200, TRUE, NoSid, Absent)>>,
      <<Http(200, TRUE, NoSid, JNull)>>,
      <<Http(200, FALSE, NoSid, JNull)>>,
      <<Http(404, TRUE, NoSid, JNull)>>,
      <<Http(503, FALSE, NoSid, JNull)>>,
      <<Http(503, FALSE, NoSid, JNull), Http(200, TRUE, NoSid, JList(<<Row1>>))>>,
      <<Refused>> }

-----------------------------------------------------------------------------
(* Dictionaries: functions whose domain grows with the keys written. *)

EmptyDict == <<>>

\* d[k] = v
PutReplace(d, k, v) == [x \in {k} |-> v]
Put(d, k, v) == [x \in DOMAIN d \cup {k} |-> IF x = k THEN v ELSE d[x]]

-----------------------------------------------------------------------------
(* Init: main has parsed its arguments, read the query and loaded the      *)
(* configuration.                                                           *)

NormIdle ==
    /\ nqPc = "idle"
    /\ nqIn = <<>>
    /\ nqOut = <<>>
    /\ nqOut2 = <<>>

Init ==
    /\ query \in Queries
    /\ instances \in Configs
    /\ selected_clients \in Selections
    /\ parallel \in 1..MaxParallel
    /\ fmt \in Formats
    /\ unwritable \in Unwritables
    /\ mainpc = "filter"
    /\ filtered_instances = <<>>
    /\ submitted = 0
    /\ upc = <<>>
    /\ uq = <<>>
    /\ usid = <<>>
    /\ calls = <<>>
    /\ future = <<>>
    /\ yielded = <<>>
    /\ results = EmptyDict
    /\ errors = EmptyDict
    /\ exit_code = -1
    /\ NormIdle

-----------------------------------------------------------------------------
(* main, up to the pool. *)

\* [inst for inst in instances if inst.name in selected_clients]
FilterInstances(insts, selected) ==
    LET keep(inst) == inst.name \in selected IN SelectSeq(insts, keep)

\* Lines 401-421: filter, leave when nothing is targeted, create the empty
\* dictionaries.
\* if not filtered_instances: ... sys.exit(1)
NothingTargetedNever(f) == FALSE
NothingTargeted(f) == f = <<>>

Filter ==
    /\ mainpc = "filter"
    /\ LET f == FilterInstances(instances, selected_clients)
       IN /\ filtered_instances' = f
          /\ IF NothingTargeted(f)
             THEN /\ mainpc' = "done"
                  /\ exit_code' = 1
                  /\ UNCHANGED <<upc, uq, usid, calls, future>>
             ELSE /\ mainpc' = "submit"
                  /\ exit_code' = exit_code
                  /\ upc' = [i \in 1..Len(f) |-> "new"]
                  /\ uq' = [i \in 1..Len(f) |-> <<>>]
                  /\ usid' = [i \in 1..Len(f) |-> NoSid]
                  /\ calls' = [i \in 1..Len(f) |-> <<>>]
                  /\ future' = [i \in 1..Len(f) |-> NoOutcome]
    /\ UNCHANGED <<query, instances, selected_clients, parallel, fmt, unwritable, submitted,
                   yielded, results, errors>>
    /\ UNCHANGED normVars

\* One pool.submit(executor.execute, inst, query) of the comprehension; after
\* the last one main enters the as_completed loop.
Submit ==
    /\ mainpc = "submit"
    /\ submitted < Len(filtered_instances)
    /\ submitted' = submitted + 1
    /\ upc' = [upc EXCEPT ![submitted + 1] = "queued"]
    /\ mainpc' = IF submitted + 1 = Len(filtered_instances) THEN "collect" ELSE "submit"
    /\ UNCHANGED <<query, instances, selected_clients, parallel, fmt, unwritable,
                   filtered_instances, uq, usid, calls, future, yielded, results,
                   errors, exit_code>>
    /\ UNCHANGED normVars

-----------------------------------------------------------------------------
(* A unit: SplunkQueryExecutor.execute on a pool worker. *)

\* ThreadPoolExecutor(max_workers=args.parallel): a queued work item is taken
\* only by a worker, and there are at most max_workers of them.
PoolHasFreeWorkerNoLimit == TRUE
PoolHasFreeWorkerNoReuse ==
    Cardinality({ i \in Units : upc[i] \notin {"new", "queued"} }) < parallel
PoolHasFreeWorker == Cardinality(InFlight) < parallel

\* The pool's work queue is first in, first out.
QueueHead(i) == upc[i] = "queued" /\ \A j \in Units : j < i => upc[j] # "queued"

\* The branch of execute: which adapter runs for an auth_type.
AdapterElseRest(auth_type) ==
    IF auth_type = "splunk" THEN "sdk" ELSE "rest"
Adapter(auth_type) ==
    IF auth_type = "splunk" THEN "sdk"
    ELSE IF auth_type = "bearer" THEN "rest"
    ELSE "none"

\* The except clauses of the adapters: return [], f"Error SDK: {str(e)}"
SdkFailureRaises(text) == Raised(text)
SdkFailureBare(text) == Returned(JList(<<>>), text)
SdkFailure(text) == Returned(JList(<<>>), "Error SDK: " \o text)

RestFailure(text) == Returned(JList(<<>>), "Error REST: " \o text)

Settle(i, outcome) ==
    /\ future' = [future EXCEPT ![i] = outcome]
    /\ upc' = [upc EXCEPT ![i] = "done"]

unitFrame == <<query, instances, selected_clients, parallel, fmt, unwritable, mainpc,
               filtered_instances, submitted, yielded, results, errors, exit_code>>

\* A worker takes the unit and runs execute up to its first transport call.
\* fault: an exception outside the adapters' try blocks (a MemoryError, say).
Start(i) ==
    /\ QueueHead(i)
    /\ PoolHasFreeWorker
    /\ \E fault \in BOOLEAN :
         LET inst == filtered_instances[i]
             normalized_query == normalize_query(query)
             which == Adapter(inst.auth_type)
         IN IF fault
            THEN /\ Settle(i, Raised("out of memory"))
                 /\ UNCHANGED uq
            ELSE /\ uq' = [uq EXCEPT ![i] = normalized_query]
                 /\ CASE which = "sdk" ->
                           /\ upc' = [upc EXCEPT ![i] = "connect"]
                           /\ UNCHANGED future
                      [] which = "rest" ->
                           /\ upc' = [upc EXCEPT ![i] = "post"]
                           /\ UNCHANGED future
                      [] OTHER ->
                           Settle(i, Returned(JList(<<>>),
                                  "Tipo de autenticación no soportado: " \o inst.auth_type))
    /\ UNCHANGED <<usid, calls>>
    /\ UNCHANGED unitFrame
    /\ UNCHANGED normVars

-----------------------------------------------------------------------------
(* execute_splunk_sdk: client.connect, service.jobs.create, job.results.    *)
(* None of them goes through the requests session.                          *)

\* status is the HTTP status behind the outcome, 0 when there was no response.
Ok == [ok |-> TRUE, text |-> "", stream |-> <<>>, status |-> 200]
Exc(text) == [ok |-> FALSE, text |-> text, stream |-> <<>>, status |-> 0]
ExcHttp(status, text) == [ok |-> FALSE, text |-> text, stream |-> <<>>, status |-> status]
Stream(items) == [ok |-> TRUE, text |-> "", stream |-> items, status |-> 200]

\* What JSONResultsReader yields: result dictionaries and diagnostic messages.
Dict(row) == [dict |-> TRUE, v |-> row]
Message == [dict |-> FALSE, v |-> [host |-> "INFO"]]

\* isinstance(result, dict)
IsDict(item) == item.dict

ConnectOutcomes == { Ok, Exc("connection refused"), Exc("") }
CreateOutcomes == { Ok, ExcHttp(400, "HTTP 400 Bad Request") }
ResultsOutcomes ==
    { Stream(<<>>), Stream(<<Message, Dict(Row1)>>), Stream(<<Dict(Row1), Dict(Row2)>>),
      ExcHttp(503, "HTTP 503 Service Unavailable") }

\* An entry of the log of transport operations: the operation, the requests
\* it put on the wire, how it ended for the caller: "ok", "exception" (it
\* raised), "status" (a response that raise_for_status rejects), "malformed"
\* (a body response.json() cannot parse), the 'sid' of the body it
\* delivered, and the HTTP status of the last response (0 when none came).
Call(op, attempts, end, sid, status) ==
    [op |-> op, attempts |-> attempts, end |-> end, sid |-> sid, status |-> status]

SdkEnd(r) == IF r.ok THEN "ok" ELSE "exception"

HttpEnd(r) ==
    IF r.raise # "" THEN "exception"
    ELSE IF r.resp.status >= 400 THEN "status"
    ELSE IF ~r.resp.json THEN "malformed"
    ELSE "ok"

HttpSid(r) == IF HttpEnd(r) = "ok" THEN r.resp.sid ELSE NoSid

SdkConnect(i) ==
    /\ upc[i] = "connect"
    /\ \E r \in ConnectOutcomes :
       /\ calls' = Append1(calls, i, Call("connect", 1, SdkEnd(r), NoSid, r.status))
       /\ IF r.ok
          THEN upc' = [upc EXCEPT ![i] = "create"] /\ UNCHANGED future
          ELSE Settle(i, SdkFailure(r.text))
    /\ UNCHANGED <<uq, usid>>
    /\ UNCHANGED unitFrame
    /\ UNCHANGED normVars

SdkCreateJob(i) ==
    /\ upc[i] = "create"
    /\ \E r \in CreateOutcomes :
       /\ calls' = Append1(calls, i, Call("jobs.create", 1, SdkEnd(r), NoSid, r.status))
       /\ IF r.ok
          THEN upc' = [upc EXCEPT ![i] = "results"] /\ UNCHANGED future
          ELSE Settle(i, SdkFailure(r.text))
    /\ UNCHANGED <<uq, usid>>
    /\ UNCHANGED unitFrame
    /\ UNCHANGED normVars

\* job.results and the loop over the reader that keeps the dictionaries.
SdkResults(i) ==
    /\ upc[i] = "results"
    /\ \E r \in ResultsOutcomes :
       /\ calls' = Append1(calls, i, Call("job.results", 1, SdkEnd(r), NoSid, r.status))
       /\ IF r.ok
          THEN LET data == [k \in 1..Len(SelectSeq(r.stream, IsDict)) |->
                              SelectSeq(r.stream, IsDict)[k].v]
               IN Settle(i, Returned(JList(data), None))
          ELSE Settle(i, SdkFailure(r.text))
    /\ UNCHANGED <<uq, usid>>
    /\ UNCHANGED unitFrame
    /\ UNCHANGED normVars

-----------------------------------------------------------------------------
(* execute_bearer_rest: session.post (job creation), session.get (results). *)

\* if not sid
SidMissingOnlyNone(sid) == sid = NoSid
SidMissing(sid) == sid = NoSid \/ sid = ""

\* str(HTTPError) of raise_for_status
HttpError(status) == ToString(status) \o " " \o HttpErrorText(status)

RestPost(i) ==
    /\ upc[i] = "post"
    /\ \E script \in PostScripts :
         LET r == Send("POST", script, 1, RetryTotal)
         IN /\ calls' = Append1(calls, i, Call("post", r.attempts, HttpEnd(r), HttpSid(r), r.resp.status))
            /\ IF r.raise # ""
               THEN Settle(i, RestFailure(r.raise)) /\ UNCHANGED usid
               ELSE IF HttpErrorText(r.resp.status) # ""
               THEN Settle(i, RestFailure(HttpError(r.resp.status))) /\ UNCHANGED usid
               ELSE IF ~r.resp.json
               THEN Settle(i, RestFailure("Expecting value")) /\ UNCHANGED usid
               ELSE IF SidMissing(r.resp.sid)
               THEN Settle(i, RestFailure("No se pudo obtener SID del job"))
                    /\ UNCHANGED usid
               ELSE /\ usid' = [usid EXCEPT ![i] = r.resp.sid]
                    /\ upc' = [upc EXCEPT ![i] = "get"]
                    /\ UNCHANGED future
    /\ UNCHANGED uq
    /\ UNCHANGED unitFrame
    /\ UNCHANGED normVars

\* len(data) in the log line of 251, inside the try: it raises TypeError on
\* a 'results' that is null.
HasLen(data) == data.t = "list"

RestGet(i) ==
    /\ upc[i] = "get"
    /\ \E script \in GetScripts :
         LET r == Send("GET", script, 1, RetryTotal)
         IN /\ calls' = Append1(calls, i, Call("get", r.attempts, HttpEnd(r), NoSid, r.resp.status))
            /\ IF r.raise # ""
               THEN Settle(i, RestFailure(r.raise))
               ELSE IF HttpErrorText(r.resp.status) # ""
               THEN Settle(i, RestFailure(HttpError(r.resp.status)))
               ELSE IF ~r.resp.json
               THEN Settle(i, RestFailure("Expecting value"))
               ELSE LET data == IF r.resp.results = Absent
                                THEN JList(<<>>)
                                ELSE r.resp.results
                    IN IF HasLen(data)
                       THEN Settle(i, Returned(data, None))
                       ELSE Settle(i, RestFailure("object of type 'NoneType' has no len()"))
    /\ UNCHANGED <<uq, usid>>
    /\ UNCHANGED unitFrame
    /\ UNCHANGED normVars

-----------------------------------------------------------------------------
(* The as_completed loop of main (lines 429-457), one iteration per action. *)

\* instance = futures[future]
InstanceOfLast(i) == filtered_instances[Len(filtered_instances)]
InstanceOf(i) == filtered_instances[i]

\* csv.DictWriter.writerows raises on a row with a field that is not among
\* the first row's keys; save_csv writes an empty file for falsy data.
CsvRejects(data) ==
    /\ TruthyData(data)
    /\ \E k \in 1..Len(data.v) : ~(DOMAIN data.v[k] \subseteq DOMAIN data.v[1])

\* The exception raised while saving data to the file of instance name, ''
\* when it is saved: open() fails, or the csv writer rejects a row.
SaveError(data, format, name) ==
    IF name \in unwritable THEN "[Errno 13] Permission denied"
    ELSE IF format = "csv" /\ CsvRejects(data) THEN "dict contains fields not in fieldnames"
    ELSE ""

\* Where main is after the handler of lines 454-457 caught an exception: the
\* except clause is inside the for loop, so the loop goes on.
LoopAfterFaultAborts == "done"
LoopAfterFault == "collect"

Collect(i) ==
    /\ mainpc = "collect"
    /\ upc[i] = "done"
    /\ i \notin Yielded
    /\ yielded' = Append(yielded, i)
    /\ LET instance == InstanceOf(i)
           o == future[i]
       IN IF o.raised
          THEN /\ errors' = Put(errors, instance.name, "Error inesperado: " \o o.exc)
               /\ mainpc' = LoopAfterFault
               /\ UNCHANGED results
          ELSE IF Truthy(o.error)
          THEN /\ errors' = Put(errors, instance.name, o.error)
               /\ UNCHANGED <<results, mainpc>>
          ELSE /\ results' = Put(results, instance.name, o.data)
               /\ LET e == SaveError(o.data, fmt, instance.name)
                  IN IF e # ""
                     THEN /\ errors' = Put(errors, instance.name, "Error inesperado: " \o e)
                          /\ mainpc' = LoopAfterFault
                     ELSE UNCHANGED <<errors, mainpc>>
    /\ UNCHANGED <<query, instances, selected_clients, parallel, fmt, unwritable,
                   filtered_instances, submitted, upc, uq, usid, calls, future,
                   exit_code>>
    /\ UNCHANGED normVars

\* as_completed has yielded every future (and the with block has joined the
\* workers).
LoopExhaustedOrFailed == Yielded = Units \/ errors # EmptyDict
LoopExhaustedFirst == yielded # <<>>
LoopExhausted == Yielded = Units

\* Lines 459-480. len(data) at 472 would raise TypeError on a data that is
\* None, with nothing to catch it: the interpreter would exit with status 1.
Summary ==
    /\ mainpc = "collect"
    /\ LoopExhausted
    /\ IF \E n \in DOMAIN results : results[n].t # "list"
       THEN mainpc' = "done" /\ exit_code' = 1
       ELSE mainpc' = "exit" /\ exit_code' = exit_code
    /\ UNCHANGED <<query, instances, selected_clients, parallel, fmt, unwritable,
                   filtered_instances, submitted, upc, uq, usid, calls, future,
                   yielded, results, errors>>
    /\ UNCHANGED normVars

\* 0 if not errors else 1
ExitStatusOfResults(errs) == IF results # EmptyDict THEN 0 ELSE 1
ExitStatus(errs) == IF errs = EmptyDict THEN 0 ELSE 1

\* sys.exit(0 if not errors else 1)
Exit ==
    /\ mainpc = "exit"
    /\ mainpc' = "done"
    /\ exit_code' = ExitStatus(errors)
    /\ UNCHANGED <<query, instances, selected_clients, parallel, fmt, unwritable,
                   filtered_instances, submitted, upc, uq, usid, calls, future,
                   yielded, results, errors>>
    /\ UNCHANGED normVars

Next ==
    \/ Filter
    \/ Submit
    \/ \E i \in Units : Start(i)
    \/ \E i \in Units : SdkConnect(i)
    \/ \E i \in Units : SdkCreateJob(i)
    \/ \E i \in Units : SdkResults(i)
    \/ \E i \in Units : RestPost(i)
    \/ \E i \in Units : RestGet(i)
    \/ \E i \in Units : Collect(i)
    \/ Summary
    \/ Exit

Spec == Init /\ [][Next]_vars

\* The run under fair scheduling: the threads of the process (main and the
\* pool's workers) are scheduled whenever one of them can take a step, and a
\* call to an endpoint, once made, returns or raises (requests is given a
\* timeout at 224 and 244).
SpecFair == Init /\ [][Next]_vars /\ WF_vars(Next)

-----------------------------------------------------------------------------
(* The normalizer on its own: applied to an input, then to its own output. *)

MainIdle ==
    /\ query = <<>>
    /\ instances = <<>>
    /\ selected_clients = {}
    /\ parallel = 1
    /\ fmt = "json"
    /\ unwritable = {}
    /\ mainpc = "idle"
    /\ filtered_instances = <<>>
    /\ submitted = 0
    /\ upc = <<>>
    /\ uq = <<>>
    /\ usid = <<>>
    /\ calls = <<>>
    /\ future = <<>>
    /\ yielded = <<>>
    /\ results = EmptyDict
    /\ errors = EmptyDict
    /\ exit_code = -1

InitNormalize ==
    /\ MainIdle
    /\ nqPc = "input"
    /\ nqIn \in NormInputs
    /\ nqOut = <<>>
    /\ nqOut2 = <<>>

NormalizeOnce ==
    /\ nqPc = "input"
    /\ nqOut' = normalize_query(nqIn)
    /\ nqPc' = "once"
    /\ UNCHANGED <<nqIn, nqOut2>>
    /\ UNCHANGED mainVars

NormalizeTwice ==
    /\ nqPc = "once"
    /\ nqOut2' = normalize_query(nqOut)
    /\ nqPc' = "twice"
    /\ UNCHANGED <<nqIn, nqOut>>
    /\ UNCHANGED mainVars

NextNormalize == NormalizeOnce \/ NormalizeTwice

SpecNormalize == InitNormalize /\ [][NextNormalize]_vars

-----------------------------------------------------------------------------
(* Vocabulary of the properties. *)

\* The targeted endpoints have pairwise distinct names.
DistinctNames ==
    \A i, j \in Units : i # j => filtered_instances[i].name # filtered_instances[j].name

TargetNames == { filtered_instances[i].name : i \in Units }

\* The as_completed loop has run its body for every targeted endpoint.
CollectionFinished == Units # {} /\ Yielded = Units

\* main has gone past the loop: the summary, then the exit.
Finalized == Units # {} /\ mainpc \in {"exit", "done"}

Settled(i) == upc[i] = "done"

\* The unit's execute returned rows and no error.
Succeeded(i) == Settled(i) /\ ~future[i].raised /\ ~Truthy(future[i].error)

\* The unit's execute returned an error, or raised.
Failed(i) == Settled(i) /\ (future[i].raised \/ Truthy(future[i].error))

NameOf(i) == filtered_instances[i].name

Ops(i) == { calls[i][k].op : k \in 1..Len(calls[i]) }

-----------------------------------------------------------------------------
(* C1. Total outcome: with distinct names, once the collection loop has     *)
(* finished the keys of results and the keys of errors are disjoint, their  *)
(* union is the set of targeted names, and the two sizes add up to the      *)
(* number of targeted endpoints.                                            *)
C1_TotalOutcome ==
    (CollectionFinished /\ DistinctNames) =>
        /\ DOMAIN results \cap DOMAIN errors = {}
        /\ DOMAIN results \cup DOMAIN errors = TargetNames
        /\ Cardinality(DOMAIN results) + Cardinality(DOMAIN errors) = Len(filtered_instances)

(* C2. Isolation: with distinct names, every endpoint whose execute returned *)
(* rows without error is in results with exactly those rows as soon as the  *)
(* loop has handled it, and when main goes past the loop every such         *)
(* endpoint has been handled, whatever the other endpoints did.             *)
C2_Isolation ==
    DistinctNames =>
        /\ \A i \in Yielded :
             Succeeded(i) =>
                 NameOf(i) \in DOMAIN results /\ results[NameOf(i)] = future[i].data
        /\ Finalized =>
             \A i \in Units :
                 Succeeded(i) =>
                     NameOf(i) \in DOMAIN results /\ results[NameOf(i)] = future[i].data

\* A finished run in which one endpoint failed and another one succeeded and
\* is in results.
C2_Witness ==
    /\ Finalized
    /\ DistinctNames
    /\ \E i, j \in Units :
         /\ Failed(i)
         /\ Succeeded(j)
         /\ future[j].data.v # <<>>
         /\ results[NameOf(j)] = future[j].data

(* C3. Concurrency bound: in every state at most parallel units are inside  *)
(* an adapter.                                                              *)
C3_ConcurrencyBound == Cardinality(InFlight) <= parallel

\* The pool is full and a submitted unit is waiting for a worker.
C3_Witness ==
    /\ Cardinality(InFlight) = parallel
    /\ \E i \in Units : upc[i] = "queued"

-----------------------------------------------------------------------------
(* What the endpoints' own outcomes determine, in no particular order. *)

\* The message the loop records for a unit that does not end in results only.
ErrorOf(i) ==
    IF future[i].raised THEN "Error inesperado: " \o future[i].exc
    ELSE IF Truthy(future[i].error) THEN future[i].error
    ELSE "Error inesperado: " \o SaveError(future[i].data, fmt, NameOf(i))

InErrors(i) ==
    Failed(i) \/ (Succeeded(i) /\ SaveError(future[i].data, fmt, NameOf(i)) # "")

ExpectedResults ==
    [n \in { NameOf(i) : i \in { u \in Units : Succeeded(u) } } |->
        future[CHOOSE i \in Units : NameOf(i) = n].data]

ExpectedErrors ==
    [n \in { NameOf(i) : i \in { u \in Units : InErrors(u) } } |->
        ErrorOf(CHOOSE i \in Units : NameOf(i) = n)]

(* C4. Order independence: with distinct names, once the loop has finished  *)
(* results and errors are the mappings that the endpoints' outcomes         *)
(* determine, whatever the order in which the units ran and were handled.   *)
C4_OrderIndependence ==
    (CollectionFinished /\ DistinctNames) =>
        results = ExpectedResults /\ errors = ExpectedErrors

\* The loop has finished after handling the second endpoint before the first,
\* one of them a success and the other a failure.
C4_Witness ==
    /\ CollectionFinished
    /\ DistinctNames
    /\ yielded = <<2, 1>>
    /\ Succeeded(1)
    /\ Failed(2)
    /\ results = ExpectedResults
    /\ errors = ExpectedErrors

(* C5. main goes past the loop only when every unit has settled and has     *)
(* been handled by the loop; a failure does not end the loop early.         *)
C5_FinalizeAfterAll ==
    Finalized => \A i \in Units : Settled(i) /\ i \in Yielded

\* A finished run with a failure and, nevertheless, a recorded success.
C5_Witness ==
    /\ Finalized
    /\ Len(filtered_instances) = 2
    /\ errors # EmptyDict
    /\ results # EmptyDict
    /\ Yielded = Units

-----------------------------------------------------------------------------
(* The normalizer's properties, under SpecNormalize. *)

\* t is s without its leading and trailing whitespace.
IsTrimOf(t, s) ==
    \E a, b \in 0..Len(s) :
        /\ a + b <= Len(s)
        /\ \A k \in 1..a : s[k] \in Whitespace
        /\ \A k \in (Len(s) - b + 1)..Len(s) : s[k] \in Whitespace
        /\ t = SubSeq(s, a + 1, Len(s) - b)
        /\ t # <<>> => (t[1] \notin Whitespace /\ t[Len(t)] \notin Whitespace)

BeginsWith(s, p) == Len(s) >= Len(p) /\ \A k \in 1..Len(p) : s[k] = p[k]

Blank(s) == \A k \in 1..Len(s) : s[k] \in Whitespace

(* C6, as claimed. Idempotence: for every string q, the empty and the       *)
(* whitespace-only ones included, normalize_query(normalize_query(q)) is    *)
(* normalize_query(q).                                                      *)
C6_Idempotent == nqPc = "twice" => nqOut2 = nqOut

(* C6, amended. For every string q with a character that is not whitespace, *)
(* normalize_query(normalize_query(q)) is normalize_query(q); for the empty *)
(* and the whitespace-only strings normalize_query(q) is 'search ' and      *)
(* normalize_query of that is 'search'.                                     *)
C6_IdempotentNonBlank ==
    nqPc = "twice" =>
        /\ ~Blank(nqIn) => nqOut2 = nqOut
        /\ Blank(nqIn) =>
             /\ nqOut = <<"s", "e", "a", "r", "c", "h", " ">>
             /\ nqOut2 = <<"s", "e", "a", "r", "c", "h">>

\* An input that is trimmed and prefixed, normalized twice.
C6_Witness ==
    /\ nqPc = "twice"
    /\ nqIn = <<" ", "x", "\n">>
    /\ nqOut = <<"s", "e", "a", "r", "c", "h", " ", "x">>

(* C7. normalize_query returns the trimmed input when that begins with      *)
(* 'search' or '|', and 'search ' followed by the trimmed input otherwise;  *)
(* the result begins with 'search' or '|'; the empty input gives 'search '. *)
C7_NormalizeContract ==
    nqPc \in {"once", "twice"} =>
        /\ \E t \in { SubSeq(nqIn, a, b) : a \in 1..(Len(nqIn) + 1), b \in 0..Len(nqIn) } :
             /\ IsTrimOf(t, nqIn)
             /\ nqOut = IF BeginsWith(t, SearchWord) \/ BeginsWith(t, Pipe)
                        THEN t
                        ELSE <<"s", "e", "a", "r", "c", "h", " ">> \o t
        /\ BeginsWith(nqOut, SearchWord) \/ BeginsWith(nqOut, Pipe)
        /\ nqIn = <<>> => nqOut = <<"s", "e", "a", "r", "c", "h", " ">>

\* An input that begins like 'search' without being it: trimmed and prefixed.
C7_Witness ==
    /\ nqPc = "once"
    /\ nqIn = <<"s", "e", "a", " ">>
    /\ nqOut = <<"s", "e", "a", "r", "c", "h", " ", "s", "e", "a">>

-----------------------------------------------------------------------------
(* Properties of the adapters, under Spec. *)

UnsupportedMessage(i) ==
    "Tipo de autenticación no soportado: " \o filtered_instances[i].auth_type

(* C8. For an endpoint whose auth_type is neither 'splunk' nor 'bearer' no  *)
(* transport operation is ever invoked, execute returns no rows and the     *)
(* message that names the unsupported authentication type, and the loop     *)
(* records the endpoint in errors.                                          *)
C8_UnsupportedAuth ==
    \A i \in Units :
        filtered_instances[i].auth_type \notin {"splunk", "bearer"} =>
            /\ calls[i] = <<>>
            /\ ~Running(i)
            /\ (Settled(i) /\ ~future[i].raised) =>
                   /\ future[i].data = JList(<<>>)
                   /\ future[i].error = UnsupportedMessage(i)
            /\ i \in Yielded => NameOf(i) \in DOMAIN errors
            /\ (i \in Yielded /\ DistinctNames /\ ~future[i].raised) =>
                   /\ errors[NameOf(i)] = UnsupportedMessage(i)
                   /\ NameOf(i) \notin DOMAIN results

\* An 'oauth' endpoint handled by the loop, beside an endpoint that did call
\* its transport.
C8_Witness ==
    /\ DistinctNames
    /\ \E i, j \in Units :
         /\ filtered_instances[i].auth_type = "oauth"
         /\ i \in Yielded
         /\ errors[NameOf(i)] = UnsupportedMessage(i)
         /\ calls[j] # <<>>

\* The job-creation POST came back well-formed with no usable 'sid'.
PostWithoutSid(i) ==
    \E k \in 1..Len(calls[i]) :
        /\ calls[i][k].op = "post"
        /\ calls[i][k].end = "ok"
        /\ calls[i][k].sid \in {NoSid, ""}

(* C9. A bearer endpoint whose job-creation response has no 'sid', or an    *)
(* empty one, settles with a failure outcome, is recorded in errors, and no *)
(* results GET is issued for it; a results GET is issued only after a       *)
(* job-creation POST that succeeded and gave a non-empty sid.               *)
C9_NoSidNoGet ==
    \A i \in Units :
        /\ PostWithoutSid(i) =>
               /\ Settled(i)
               /\ ~future[i].raised
               /\ future[i].data = JList(<<>>)
               /\ Truthy(future[i].error)
               /\ "get" \notin Ops(i)
               /\ i \in Yielded => NameOf(i) \in DOMAIN errors
        /\ (upc[i] = "get" \/ "get" \in Ops(i)) =>
               /\ calls[i][1].op = "post"
               /\ calls[i][1].end = "ok"
               /\ calls[i][1].sid \notin {NoSid, ""}
               /\ usid[i] = calls[i][1].sid
               /\ \A k \in 1..Len(calls[i]) : calls[i][k].op = "get" => k > 1

\* A bearer endpoint whose POST returned an empty sid, handled by the loop.
C9_Witness ==
    \E i \in Units :
        /\ calls[i] = << Call("post", 1, "ok", "", 200) >>
        /\ i \in Yielded
        /\ errors[NameOf(i)] = "Error REST: No se pudo obtener SID del job"

\* Some transport operation of the unit failed.
TransportFailed(i) == \E k \in 1..Len(calls[i]) : calls[i][k].end # "ok"

(* C10. Whenever a transport operation of an adapter fails (it raises, the  *)
(* status is an error, the body is malformed), at whatever step, the unit   *)
(* makes no further transport call and execute returns no rows and a        *)
(* non-empty message rather than raising; the loop records the endpoint in  *)
(* errors.                                                                  *)
C10_TransportFailureReturned ==
    \A i \in Units :
        TransportFailed(i) =>
            /\ calls[i][Len(calls[i])].end # "ok"
            /\ \A k \in 1..(Len(calls[i]) - 1) : calls[i][k].end = "ok"
            /\ Settled(i)
            /\ ~future[i].raised
            /\ future[i].data = JList(<<>>)
            /\ Truthy(future[i].error)
            /\ i \in Yielded => NameOf(i) \in DOMAIN errors

\* One endpoint of each adapter failed at its last step, and both were
\* handled by the loop.
C10_Witness ==
    \E i, j \in Units :
        /\ Len(calls[i]) = 3
        /\ calls[i][3].op = "job.results"
        /\ calls[i][3].end = "exception"
        /\ Len(calls[j]) = 2
        /\ calls[j][2].op = "get"
        /\ calls[j][2].end = "malformed"
        /\ {i, j} \subseteq Yielded
        /\ {NameOf(i), NameOf(j)} \subseteq DOMAIN errors

-----------------------------------------------------------------------------
(* Properties of the collection loop, under Spec. *)

(* C11. A unit that raised instead of returning is caught in the collection *)
(* loop: once handled, its endpoint is in errors with the message 'Error    *)
(* inesperado: ' and the text of the fault and is not in results, main is   *)
(* still in the loop or past it with every unit handled, and each sibling   *)
(* unit runs to its own outcome, which the loop records.                    *)
C11_UnitFaultCaught ==
    \A i \in Yielded :
        future[i].raised =>
            /\ NameOf(i) \in DOMAIN errors
            /\ DistinctNames =>
                   /\ errors[NameOf(i)] = "Error inesperado: " \o future[i].exc
                   /\ NameOf(i) \notin DOMAIN results
            /\ mainpc \in {"collect", "exit", "done"}
            /\ mainpc \in {"exit", "done"} =>
                   /\ Yielded = Units
                   /\ \A j \in Units : Settled(j)
                   /\ DistinctNames =>
                          \A j \in Units :
                              Succeeded(j) =>
                                  /\ NameOf(j) \in DOMAIN results
                                  /\ results[NameOf(j)] = future[j].data

\* The first unit the loop handled had raised; the loop went on to the
\* sibling, a success with rows, and the run ended.
C11_Witness ==
    /\ mainpc = "done"
    /\ DistinctNames
    /\ Len(yielded) = 2
    /\ future[yielded[1]].raised
    /\ errors[NameOf(yielded[1])] = "Error inesperado: out of memory"
    /\ Succeeded(yielded[2])
    /\ future[yielded[2]].data.v # <<>>
    /\ results[NameOf(yielded[2])] = future[yielded[2]].data
    /\ calls[yielded[2]] # <<>>

(* C12. Exit disposition: when a run that scheduled units has ended, every  *)
(* unit has settled and been handled, and the exit status is 0 if the       *)
(* errors mapping is empty and 1 otherwise, whatever results holds.         *)
C12_ExitDisposition ==
    (mainpc = "done" /\ Units # {}) =>
        /\ \A i \in Units : Settled(i) /\ i \in Yielded
        /\ exit_code \in {0, 1}
        /\ exit_code = 0 <=> errors = EmptyDict

\* A run of two endpoints ended with status 0: both are in results and errors
\* is empty.
C12_Witness ==
    /\ mainpc = "done"
    /\ Len(filtered_instances) = 2
    /\ DOMAIN results = TargetNames
    /\ DistinctNames
    /\ errors = EmptyDict
    /\ exit_code = 0

(* C13. Result identity: every entry results[n] is the row sequence that    *)
(* the adapter invocation of an endpoint named n returned, whatever the     *)
(* order of completion; and, with distinct names, an endpoint whose adapter *)
(* returned zero rows without error is, once handled, in results with the   *)
(* empty row sequence and not in errors.                                    *)
C13_ResultIdentity ==
    /\ \A n \in DOMAIN results :
         \E i \in Yielded :
             NameOf(i) = n /\ Succeeded(i) /\ results[n] = future[i].data
    /\ DistinctNames =>
         \A i \in Yielded :
             (Succeeded(i) /\ future[i].data = JList(<<>>)) =>
                 /\ NameOf(i) \in DOMAIN results
                 /\ results[NameOf(i)] = JList(<<>>)
                 /\ NameOf(i) \notin DOMAIN errors

C15_Termination ==
    /\ \A i \in 1..MaxInstances :
         (i \in Units /\ upc[i] = "queued") ~> (i \in Units /\ Settled(i))
    /\ <>(mainpc = "done" /\ \A i \in Units : Settled(i) /\ i \in Yielded)

\* A run of two units on a pool of one worker has ended: the second unit had
\* to wait for the worker.
C15_Witness ==
    /\ mainpc = "done"
    /\ parallel = 1
    /\ Len(filtered_instances) = 2
    /\ \A i \in Units : Settled(i) /\ i \in Yielded
    /\ \A i \in Units : calls[i] # <<>>

(* C16. No error after success: with distinct names, an endpoint whose      *)
(* successful outcome the loop has written to results is never written to   *)
(* errors, a fault while saving or rendering its rows included: no handled  *)
(* endpoint is in both mappings.                                            *)
C16_NoErrorAfterSuccess ==
    DistinctNames =>
        \A i \in Yielded :
            NameOf(i) \in DOMAIN results => NameOf(i) \notin DOMAIN errors

-----------------------------------------------------------------------------
(* The retry policy of the session, under Spec. *)

(* C17. Uniform retry: for both adapters, a transport call that is reported *)
(* as failed on a retry-eligible status (500, 502, 503, 504) has put the    *)
(* first request and every retry of the policy on the wire, and no call     *)
(* puts more requests than that.                                            *)
C17_RetryUniform ==
    \A i \in Units :
        \A k \in 1..Len(calls[i]) :
            /\ calls[i][k].attempts <= RetryTotal + 1
            /\ (calls[i][k].end # "ok" /\ calls[i][k].status \in StatusForcelist) =>
                   calls[i][k].attempts = RetryTotal + 1

-----------------------------------------------------------------------------
(* The query handed to the adapters, under Spec. *)

\* The unit has entered execute_splunk_sdk or execute_bearer_rest.
AdapterInvoked(i) == Running(i) \/ calls[i] # <<>>

\* n is what normalizing the raw query q gives: q trimmed, with 'search '
\* put before it unless it begins with 'search' or '|'.
IsNormalizedOf(n, q) ==
    \E t \in { SubSeq(q, a, b) : a \in 1..(Len(q) + 1), b \in 0..Len(q) } :
        /\ IsTrimOf(t, q)
        /\ n = IF BeginsWith(t, SearchWord) \/ BeginsWith(t, Pipe)
               THEN t
               ELSE <<"s", "e", "a", "r", "c", "h", " ">> \o t

(* C18. One normalized query: the query handed to the adapter of every      *)
(* endpoint of a run is the normalization of the run's raw query, hence the *)
(* same for all endpoints, and no step of the run changes the raw query.    *)
C18_OneNormalizedQuery ==
    /\ [](\A i \in Units :
             AdapterInvoked(i) =>
                 /\ IsNormalizedOf(uq[i], query)
                 /\ \A j \in Units : AdapterInvoked(j) => uq[j] = uq[i])
    /\ [][query' = query]_vars

\* Two endpoints, one of each adapter, have both made transport calls with
\* the same query, the raw one trimmed and left without prefix.
C18_Witness ==
    /\ query = <<" ", "|", " ", "x", "\n">>
    /\ Len(filtered_instances) = 2
    /\ filtered_instances[1].auth_type = "splunk"
    /\ filtered_instances[2].auth_type = "bearer"
    /\ calls[1] # <<>>
    /\ calls[2] # <<>>
    /\ uq[1] = <<"|", " ", "x">>
    /\ uq[2] = <<"|", " ", "x">>

-----------------------------------------------------------------------------
(* The outcomes of execute, under Spec. *)

\* A path of execute that its code ends with a failure: the authentication
\* type is not supported, a transport operation failed, or the POST gave no
\* sid.
FailurePath(i) ==
    \/ filtered_instances[i].auth_type \notin {"splunk", "bearer"}
    \/ TransportFailed(i)
    \/ PostWithoutSid(i)

(* C19. One variant: every outcome execute returns is either a row sequence *)
(* with no error, or the empty row sequence with a non-empty message; every *)
(* failure path returns the latter, and the loop records each of those in   *)
(* errors.                                                                  *)
C19_OneVariant ==
    \A i \in Units :
        (Settled(i) /\ ~future[i].raised) =>
            /\ \/ future[i].error = None /\ future[i].data.t = "list"
               \/ Truthy(future[i].error) /\ future[i].data = JList(<<>>)
            /\ FailurePath(i) => Truthy(future[i].error)
            /\ (Truthy(future[i].error) /\ i \in Yielded) => NameOf(i) \in DOMAIN errors
            /\ (Truthy(future[i].error) /\ i \in Yielded /\ DistinctNames) =>
                   /\ errors[NameOf(i)] = future[i].error
                   /\ NameOf(i) \notin DOMAIN results

\* client.connect raised an exception whose text is empty: the message of the
\* outcome is still non-empty, and the loop recorded the failure; a sibling
\* returned rows and no error.
C19_Witness ==
    /\ DistinctNames
    /\ \E i, j \in Units :
         /\ i \in Yielded
         /\ future[i] = Returned(JList(<<>>), "Error SDK: ")
         /\ errors[NameOf(i)] = "Error SDK: "
         /\ Succeeded(j)
         /\ future[j].data.v # <<>>

-----------------------------------------------------------------------------
(* The run without targets, under Spec. *)

(* C20. No targets: when filtering leaves no endpoint, the run ends with    *)
(* status 1 with no unit scheduled, no transport call made and nothing      *)
(* recorded; and a run that targeted endpoints ends only with an outcome    *)
(* recorded for every one of them.                                          *)
C20_NoTargets ==
    /\ (mainpc # "filter" /\ filtered_instances = <<>>) =>
           /\ mainpc = "done"
           /\ exit_code = 1
           /\ submitted = 0
           /\ upc = <<>>
           /\ calls = <<>>
           /\ future = <<>>
           /\ yielded = <<>>
           /\ results = EmptyDict
           /\ errors = EmptyDict
    /\ (mainpc = "done" /\ filtered_instances # <<>>) =>
           /\ Yielded = Units
           /\ DOMAIN results \cup DOMAIN errors = TargetNames

\* Instances are configured but none has a selected name: the run has ended
\* with status 1 and nothing scheduled.
C20_Witness ==
    /\ mainpc = "done"
    /\ Len(instances) = 2
    /\ filtered_instances = <<>>
    /\ exit_code = 1
    /\ submitted = 0
    /\ calls = <<>>

====
